---- MODULE Spec2Model ----
(***************************************************************************)
(* The declarative field-validation engine of the event planner client:    *)
(* the predicate library, the rule combinator join and the schema          *)
(* aggregator createValidator (src/unnamed/part_000, lines 227-358).       *)
(*                                                                         *)
(* JavaScript values are records tagged with their type.  A string that    *)
(* comes from a form field is a sequence of one-character strings, so the  *)
(* regular expressions of the library can be matched against it; an error  *)
(* message of the library is a string value that carries its text.         *)
(***************************************************************************)
EXTENDS Integers, Sequences, FiniteSets, TLC

VARIABLES schema, data, now, called, results, joined, threw, errors,
          profile, previous, dispatched

formVars == <<schema, data, now, called, results, joined, threw, errors>>
profileVars == <<profile, previous, dispatched>>
vars == <<formVars, profileVars>>

-----------------------------------------------------------------------------
(* JavaScript values *)

Undefined == [t |-> "undefined"]
Null == [t |-> "null"]
Str(s) == [t |-> "string", s |-> s]
Num(n) == [t |-> "number", n |-> n]
Msg(text) == [t |-> "string", text |-> text]

\* The exception a call raises (TypeError: value.toLowerCase is not a function).
TypeError == [t |-> "TypeError"]

IsMsg(v) == v.t = "string" /\ "text" \in DOMAIN v
IsStr(v) == v.t = "string" /\ "s" \in DOMAIN v

\* ToBoolean: undefined, null, '' and 0 are falsy; every message is non-empty.
Truthy(v) ==
  CASE v.t = "undefined" -> FALSE
    [] v.t = "null" -> FALSE
    [] v.t = "number" -> v.n # 0
    [] v.t = "string" -> IF IsMsg(v) THEN TRUE ELSE v.s # <<>>
    [] OTHER -> TRUE

-----------------------------------------------------------------------------
(* Characters *)

DigitSeq == <<"0", "1", "2", "3", "4", "5", "6", "7", "8", "9">>
LowerSeq == <<"a", "b", "c", "d", "e", "f", "g", "h", "i", "j", "k", "l", "m",
              "n", "o", "p", "q", "r", "s", "t", "u", "v", "w", "x", "y", "z">>
UpperSeq == <<"A", "B", "C", "D", "E", "F", "G", "H", "I", "J", "K", "L", "M",
              "N", "O", "P", "Q", "R", "S", "T", "U", "V", "W", "X", "Y", "Z">>

Range(q) == {q[i] : i \in DOMAIN q}

Digit == Range(DigitSeq)
Lower == Range(LowerSeq)
Upper == Range(UpperSeq)
Punct == {" ", "@", ".", ",", ";", ":", "/", "_", "-", "'", "+", "!",
          "<", ">", "(", ")", "[", "]", "\\", "\""}
AnyChar == Digit \cup Lower \cup Upper \cup Punct

IndexOf(q, c) == CHOOSE i \in DOMAIN q : q[i] = c

\* String.prototype.toLowerCase
toLowerCase(s) ==
  [i \in DOMAIN s |->
     IF s[i] \in Upper THEN LowerSeq[IndexOf(UpperSeq, s[i])] ELSE s[i]]

\* The decimal digits of a natural number.
RECURSIVE Digits(_)
Digits(n) ==
  IF n < 10 THEN <<DigitSeq[n + 1]>>
  ELSE Digits(n \div 10) \o <<DigitSeq[(n % 10) + 1]>>

\* ToString of a value, as RegExp.prototype.test applies it to its argument.
ToStr(v) ==
  CASE v.t = "string" -> v.s
    [] v.t = "number" -> IF v.n < 0 THEN <<"-">> \o Digits(-v.n) ELSE Digits(v.n)
    [] v.t = "null" -> <<"n", "u", "l", "l">>
    [] OTHER -> <<"u", "n", "d", "e", "f", "i", "n", "e", "d">>

\* The text of a field string, for `${...}` in a message.
RECURSIVE Text(_)
Text(s) == IF s = <<>> THEN "" ELSE Head(s) \o Text(Tail(s))

-----------------------------------------------------------------------------
(* The strings the form's fields hold *)

X == <<"x">>
JohnSmith == <<"J", "o", "h", "n", " ", "S", "m", "i", "t", "h">>
Email == <<"a", "@", "b", ".", "c", "o">>
Date2019 == <<"0", "1", "/", "0", "1", "/", "2", "0", "1", "9", " ",
              "1", "0", ":", "0", "0", " ", "a", "m">>
Date2020 == <<"0", "1", "/", "0", "1", "/", "2", "0", "2", "0", " ",
              "1", "0", ":", "0", "0", " ", "a", "m">>

\* The strings the patterns and the date parser are applied to: the field
\* strings, their lower-case forms and the string forms of the numbers.
FieldStrings == {<<>>, X, JohnSmith, Email, Date2019, Date2020}
FieldNumbers == {0, 5}
KnownStrings ==
  FieldStrings \cup {toLowerCase(q) : q \in FieldStrings}
  \cup {Digits(n) : n \in FieldNumbers}

-----------------------------------------------------------------------------
(* Regular expressions.  A pattern is a tree; Ends(re, s, i) is the set of  *)
(* positions at which a match of re that starts at position i of s can end. *)

Eps == <<"eps">>
Cls(S) == <<"cls", S>>
Cat2(a, b) == <<"cat", a, b>>
Alt(a, b) == <<"alt", a, b>>
Star(a) == <<"star", a>>
Ahead(a) == <<"ahead", a>>
Plus(a) == Cat2(a, Star(a))
Opt(a) == Alt(a, Eps)
Lit(c) == Cls({c})
RECURSIVE Cat(_)
Cat(q) == IF q = <<>> THEN Eps ELSE Cat2(Head(q), Cat(Tail(q)))

RECURSIVE Ends(_, _, _), StarEnds(_, _, _)
Ends(re, s, i) ==
  CASE re[1] = "eps" -> {i}
    [] re[1] = "cls" -> IF i <= Len(s) /\ s[i] \in re[2] THEN {i + 1} ELSE {}
    [] re[1] = "cat" -> UNION {Ends(re[3], s, j) : j \in Ends(re[2], s, i)}
    [] re[1] = "alt" -> Ends(re[2], s, i) \cup Ends(re[3], s, i)
    [] re[1] = "star" -> StarEnds(re[2], s, {i})
    [] re[1] = "ahead" -> IF Ends(re[2], s, i) # {} THEN {i} ELSE {}

StarEnds(a, s, S) ==
  LET N == S \cup UNION {Ends(a, s, j) : j \in S}
  IN IF N = S THEN S ELSE StarEnds(a, s, N)

\* Every pattern of the library is anchored: /^ ... $/.
Matches(re, s) == (Len(s) + 1) \in Ends(re, s, 1)

\* A RegExp object: the pattern, under the name of the constant that holds
\* it, and the known strings it matches.
RegExp(name, pattern) ==
  [name |-> name,
   pattern |-> pattern,
   known |-> {q \in KnownStrings : Matches(pattern, q)}]

Dot == Cls(AnyChar)
Word == Digit \cup Lower \cup Upper \cup {"_"}
Space == {" "}

\* /^\+?(0|[1-9]\d*)$/
isIntegerRE ==
  RegExp("isIntegerRE",
  Cat(<<Opt(Lit("+")),
        Alt(Lit("0"), Cat2(Cls(Digit \ {"0"}), Star(Cls(Digit))))>>))

\* /^(?=.*[0-9]).+$/
numberRE ==
  RegExp("numberRE", Cat2(Ahead(Cat2(Star(Dot), Cls(Digit))), Plus(Dot)))

\* /^[a-z]([-']?[a-z]+)*( [a-z]([-']?[a-z]+)*)+$/
twoWordsRE ==
  RegExp("twoWordsRE",
  LET word == Cat2(Cls(Lower),
                   Star(Cat2(Opt(Cls({"-", "'"})), Plus(Cls(Lower)))))
  IN Cat2(word, Plus(Cat2(Lit(" "), word))))

\* /^(?=.*[a-z]).+$/
lowercaseRE ==
  RegExp("lowercaseRE", Cat2(Ahead(Cat2(Star(Dot), Cls(Lower))), Plus(Dot)))

\* /^(?=.*[A-Z]).+$/
uppercaseRE ==
  RegExp("uppercaseRE", Cat2(Ahead(Cat2(Star(Dot), Cls(Upper))), Plus(Dot)))

\* /^(?=.*[_\W]).+$/
specialCharRE ==
  RegExp("specialCharRE",
  Cat2(Ahead(Cat2(Star(Dot), Cls({"_"} \cup (AnyChar \ Word)))), Plus(Dot)))

\* /^(([^<>()[\]\\.,;:\s@\"]+(\.[^<>()[\]\\.,;:\s@\"]+)*)|(\".+\"))@
\*   ((\[[0-9]{1,3}\.[0-9]{1,3}\.[0-9]{1,3}\.[0-9]{1,3}\])|
\*    (([a-zA-Z\-0-9]+\.)+[a-zA-Z]{2,}))$/
emailRE ==
  RegExp("emailRE",
  LET atom == Cls(AnyChar \ ({"<", ">", "(", ")", "[", "]", "\\", ".", ",",
                              ";", ":", "@", "\""} \cup Space))
      d == Cls(Digit)
      octet == Cat(<<d, Opt(d), Opt(d)>>)
      letter == Cls(Lower \cup Upper)
      local == Alt(Cat2(Plus(atom), Star(Cat2(Lit("."), Plus(atom)))),
                   Cat(<<Lit("\""), Plus(Dot), Lit("\"")>>))
      ip == Cat(<<Lit("["), octet, Lit("."), octet, Lit("."), octet,
                  Lit("."), octet, Lit("]")>>)
      host == Cat(<<Plus(Cat2(Plus(Cls(Lower \cup Upper \cup Digit \cup {"-"})),
                              Lit("."))),
                    letter, letter, Star(letter)>>)
  IN Cat(<<local, Lit("@"), Alt(ip, host)>>))

\* /^[0,1]?\d\/(([0-2]?\d)|([3][01]))\/((199\d)|([2-9]\d{3}))\s
\*   [0-2]?[0-9]:[0-5][0-9] (am|pm)?$/
dateRE ==
  RegExp("dateRE",
  LET d == Cls(Digit)
  IN Cat(<<Opt(Cls({"0", ",", "1"})), d, Lit("/"),
           Alt(Cat2(Opt(Cls({"0", "1", "2"})), d),
               Cat2(Lit("3"), Cls({"0", "1"}))),
           Lit("/"),
           Alt(Cat(<<Lit("1"), Lit("9"), Lit("9"), d>>),
               Cat(<<Cls(Digit \ {"0", "1"}), d, d, d>>)),
           Cls(Space),
           Opt(Cls({"0", "1", "2"})), d, Lit(":"),
           Cls({"0", "1", "2", "3", "4", "5"}), d, Lit(" "),
           Opt(Alt(Cat2(Lit("a"), Lit("m")), Cat2(Lit("p"), Lit("m"))))>>))

\* RE.test(q).  The answers for the known strings are computed once, with
\* the pattern.
Test(RE, q) ==
  IF q \in KnownStrings THEN q \in RE.known ELSE Matches(RE.pattern, q)

-----------------------------------------------------------------------------
(* Dates.  The time value of a Date is a count of milliseconds since the    *)
(* epoch, kept as a day number and the milliseconds within the day; the     *)
(* time value of an invalid Date is NaN.                                    *)

MsPerDay == 24 * 60 * 60 * 1000
MsPerHour == 60 * 60 * 1000
MsPerMinute == 60 * 1000

NaN == [nan |-> TRUE, day |-> 0, ms |-> 0]
Time(day, ms) == [nan |-> FALSE, day |-> day, ms |-> ms]

\* a < b on two Dates: a comparison with NaN is false.
Before(a, b) ==
  /\ ~a.nan
  /\ ~b.nan
  /\ (a.day < b.day \/ (a.day = b.day /\ a.ms < b.ms))

\* The position of the first c in s at or after i, or 0.
FindFrom(s, c, i) ==
  IF \E j \in i..Len(s) : s[j] = c
  THEN CHOOSE j \in i..Len(s) : s[j] = c /\ \A k \in i..(j - 1) : s[k] # c
  ELSE 0

IsNumeral(q) == q # <<>> /\ \A i \in DOMAIN q : q[i] \in Digit

RECURSIVE NumberOf(_)
NumberOf(q) ==
  IF q = <<>> THEN 0
  ELSE 10 * NumberOf(SubSeq(q, 1, Len(q) - 1)) + (IndexOf(DigitSeq, q[Len(q)]) - 1)

LeapsThrough(y) == (y \div 4) - (y \div 100) + (y \div 400)
IsLeap(y) == (y % 4 = 0 /\ y % 100 # 0) \/ y % 400 = 0
DaysBeforeMonth == <<0, 31, 59, 90, 120, 151, 181, 212, 243, 273, 304, 334>>

\* Days from the epoch to the given civil date (a day past the end of the
\* month runs into the next month).
DayNumber(year, month, day) ==
  365 * (year - 1970) + (LeapsThrough(year - 1) - LeapsThrough(1969))
  + DaysBeforeMonth[month] + (IF month > 2 /\ IsLeap(year) THEN 1 ELSE 0)
  + (day - 1)

\* The pieces of s between the separators, in order, or <<>> when a
\* separator is missing.
RECURSIVE SplitAt(_, _)
SplitAt(s, seps) ==
  IF seps = <<>> THEN <<s>>
  ELSE IF FindFrom(s, Head(seps), 1) = 0 THEN <<>>
  ELSE IF SplitAt(SubSeq(s, FindFrom(s, Head(seps), 1) + 1, Len(s)),
                  Tail(seps)) = <<>> THEN <<>>
  ELSE <<SubSeq(s, 1, FindFrom(s, Head(seps), 1) - 1)>>
       \o SplitAt(SubSeq(s, FindFrom(s, Head(seps), 1) + 1, Len(s)), Tail(seps))

Shaped(mm, dd, yy, hh, mi, half) ==
  /\ IsNumeral(mm) /\ Len(mm) <= 2
  /\ IsNumeral(dd) /\ Len(dd) <= 2
  /\ IsNumeral(yy) /\ Len(yy) = 4
  /\ IsNumeral(hh) /\ Len(hh) <= 2
  /\ IsNumeral(mi) /\ Len(mi) = 2
  /\ half \in {<<>>, <<"a", "m">>, <<"p", "m">>}

InRange(month, day, hour, minute, half) ==
  /\ month \in 1..12
  /\ day \in 1..31
  /\ minute \in 0..59
  /\ IF half = <<>> THEN hour \in 0..23 ELSE hour \in 1..12

Hour24(hour, half) ==
  IF half = <<>> THEN hour
  ELSE (hour % 12) + (IF half = <<"p", "m">> THEN 12 ELSE 0)

\* The time of month/day/year hour:minute, with am or pm or neither, read in
\* a zone at offset 0; NaN when a piece is no numeral or is out of range.
TimeOf(p) ==
  IF /\ Shaped(p[1], p[2], p[3], p[4], p[5], p[6])
     /\ InRange(NumberOf(p[1]), NumberOf(p[2]), NumberOf(p[4]), NumberOf(p[5]),
                p[6])
  THEN Time(DayNumber(NumberOf(p[3]), NumberOf(p[1]), NumberOf(p[2])),
            Hour24(NumberOf(p[4]), p[6]) * MsPerHour
            + NumberOf(p[5]) * MsPerMinute)
  ELSE NaN

\* Date.parse of the form's "MM/DD/YYYY h:mm a" strings; any other string is
\* unrecognisable and gives NaN.
ParseDate(s) ==
  IF SplitAt(s, <<"/", "/", " ", ":", " ">>) = <<>> THEN NaN
  ELSE TimeOf(SplitAt(s, <<"/", "/", " ", ":", " ">>))

\* Date.parse(s).  The answers for the known strings are computed once.
DateCache == {<<q, ParseDate(q)>> : q \in KnownStrings}

DateParse(s) ==
  IF s \in KnownStrings
  THEN (CHOOSE p \in DateCache : p[1] = s)[2]
  ELSE ParseDate(s)

\* new Date(value)
NewDate(value) ==
  CASE value.t = "undefined" -> NaN
    [] value.t = "null" -> Time(0, 0)
    [] value.t = "number" -> Time(value.n \div MsPerDay, value.n % MsPerDay)
    [] value.t = "string" -> DateParse(ToStr(value))

-----------------------------------------------------------------------------
(* The predicate library *)

Get(record, key) == IF key \in DOMAIN record THEN record[key] ELSE Undefined

\* noValue without the empty string.
noValue_noEmptyString(value) ==
  \/ value = Undefined
  \/ value = Null

noValue(value) ==
  \/ value = Undefined
  \/ value = Null
  \/ value = Str(<<>>)

validateWithRE(RE, message, value) ==
  IF ~Test(RE, ToStr(value)) THEN Msg(message) ELSE Undefined

\* value.length < minimum: the length of a number is undefined, and a
\* comparison with undefined is false.
LengthBelow(value, bound) == IsStr(value) /\ Len(value.s) < bound
LengthAbove(value, bound) == IsStr(value) /\ Len(value.s) > bound

\* minLength with <= in place of <.
minLength_orEqual(minimum, value) ==
  IF ~noValue(value) /\ IsStr(value) /\ Len(value.s) <= minimum
  THEN Msg("Value must contain at least " \o ToString(minimum) \o " characters")
  ELSE Undefined

minLength(minimum, value) ==
  IF ~noValue(value) /\ LengthBelow(value, minimum)
  THEN Msg("Value must contain at least " \o ToString(minimum) \o " characters")
  ELSE Undefined

maxLength(maximum, value) ==
  IF ~noValue(value) /\ LengthAbove(value, maximum)
  THEN Msg("Value must be no more than " \o ToString(maximum)
           \o " characters in length")
  ELSE Undefined

valueRequired(value) ==
  IF noValue(value) THEN Msg("Value Required") ELSE Undefined

\* value && validateWithRE(RE, message)(value)
Guarded(RE, message, value) ==
  IF Truthy(value) THEN validateWithRE(RE, message, value) ELSE value

containsSpecialChar(value) ==
  Guarded(specialCharRE, "Must contain 1 special character.", value)

isInteger(value) == Guarded(isIntegerRE, "Must be an integer value.", value)

containsNumber(value) ==
  Guarded(numberRE, "Must Contain at least one number", value)

containsLowercase(value) ==
  Guarded(lowercaseRE, "Must contain at least one lowercase letter.", value)

containsUppercase(value) ==
  Guarded(uppercaseRE, "Must contain at least one uppercase letter", value)

\* value.toLowerCase() is called on every truthy value; only a string has it.
containsTwoWords(value) ==
  IF ~Truthy(value) THEN value
  ELSE IF ~IsStr(value) THEN TypeError
  ELSE validateWithRE(twoWordsRE, "Must contain two words, i.e. full name.",
                      Str(toLowerCase(value.s)))

isEmail(value) == Guarded(emailRE, "Must be a valid email address.", value)

isValidDate(value) == Guarded(dateRE, "Must be a valid date time.", value)

\* currentDate is the instant new Date() reads from the clock.
isInFuture(value, currentDate) ==
  LET setDate == NewDate(value)
  IN IF Before(setDate, currentDate)
     THEN Msg("Please choose a date in the future")
     ELSE Null

validateOneOf(values, message, value) ==
  LET isValid == \E i \in DOMAIN values : values[i] = value
  IN IF isValid THEN message ELSE Null

matches(matchVal, currentVal) ==
  IF matchVal = currentVal THEN Null ELSE Msg("Values must match")

\* values.join(', ')
RECURSIVE JoinText(_)
JoinText(values) ==
  IF values = <<>> THEN ""
  ELSE IF Len(values) = 1 THEN Text(ToStr(values[1]))
  ELSE Text(ToStr(values[1])) \o ", " \o JoinText(Tail(values))

oneOf(values, value) ==
  validateOneOf(values, Msg("Value must be one of: " \o JoinText(values)), value)

\* noLaterThan with the comparison turned round.
noLaterThan_reversed(field, value, record) ==
  LET startDate == NewDate(Get(record, field))
      endDate == NewDate(value)
  IN IF Before(startDate, endDate)
     THEN Msg("The end date must come after the start date")
     ELSE Null

noLaterThan(field, value, record) ==
  LET startDate == NewDate(Get(record, field))
      endDate == NewDate(value)
  IN IF Before(endDate, startDate)
     THEN Msg("The end date must come after the start date")
     ELSE Null

-----------------------------------------------------------------------------
(* Rules.  A rule of a schema is a predicate of the library, with the       *)
(* configuration its factory closed over.                                   *)

Rule(name) == [name |-> name]
MinLength(n) == [name |-> "minLength", minimum |-> n]
MaxLength(n) == [name |-> "maxLength", maximum |-> n]
OneOf(values) == [name |-> "oneOf", values |-> values]
MatchesRule(v) == [name |-> "matches", matchVal |-> v]
NoLaterThan(f) == [name |-> "noLaterThan", field |-> f]

\* rule(value, data), the clock standing for the instant the call reads.
Apply(rule, value, record, clock) ==
  CASE rule.name = "valueRequired" -> valueRequired(value)
    [] rule.name = "minLength" -> minLength(rule.minimum, value)
    [] rule.name = "maxLength" -> maxLength(rule.maximum, value)
    [] rule.name = "containsSpecialChar" -> containsSpecialChar(value)
    [] rule.name = "isInteger" -> isInteger(value)
    [] rule.name = "containsNumber" -> containsNumber(value)
    [] rule.name = "containsLowercase" -> containsLowercase(value)
    [] rule.name = "containsUppercase" -> containsUppercase(value)
    [] rule.name = "containsTwoWords" -> containsTwoWords(value)
    [] rule.name = "isEmail" -> isEmail(value)
    [] rule.name = "isValidDate" -> isValidDate(value)
    [] rule.name = "isInFuture" -> isInFuture(value, clock)
    [] rule.name = "oneOf" -> oneOf(rule.values, value)
    [] rule.name = "matches" -> matches(rule.matchVal, value)
    [] rule.name = "noLaterThan" -> noLaterThan(rule.field, value, record)

\* An array of results up to the first call that raises.
Raised(mapped) == \E i \in DOMAIN mapped : mapped[i] = TypeError

UntilRaised(mapped) ==
  IF ~Raised(mapped) THEN mapped
  ELSE SubSeq(mapped, 1,
              CHOOSE i \in DOMAIN mapped :
                /\ mapped[i] = TypeError
                /\ \A j \in 1..(i - 1) : mapped[j] # TypeError)

\* rules.map(rule => rule(value, data)): the array of results, which ends at
\* the first call that raises.
MapRules(rules, value, record, clock) ==
  UntilRaised([i \in 1..Len(rules) |-> Apply(rules[i], value, record, clock)])

First(failed) == IF failed = <<>> THEN Undefined ELSE failed[1]
Last(failed) == IF failed = <<>> THEN Undefined ELSE failed[Len(failed)]

\* mapped.filter(error => !!error)[0]
FirstError(mapped) ==
  IF Raised(mapped) THEN TypeError ELSE First(SelectSeq(mapped, Truthy))

LastError(mapped) ==
  IF Raised(mapped) THEN TypeError ELSE Last(SelectSeq(mapped, Truthy))

\* join with the last error in place of the first.
join_lastError(rules, value, record, clock) ==
  LastError(MapRules(rules, value, record, clock))

join(rules, value, record, clock) ==
  FirstError(MapRules(rules, value, record, clock))

-----------------------------------------------------------------------------
(* The schema aggregator *)

\* A schema entry is one rule or a list of rules.
Bare(rule) == [isArray |-> FALSE, rules |-> <<rule>>]
List(rules) == [isArray |-> TRUE, rules |-> rules]

\* [].concat(validationRules[key])
Concat(entry) == entry.rules

\* Object.keys(validationRules), in the order the schema lists its fields.
FieldOrder == <<"start", "end">>
Fields == Range(FieldOrder)
Keys(validationRules) ==
  SelectSeq(FieldOrder, LAMBDA f : f \in DOMAIN validationRules)

NoErrors == [key \in {} |-> Undefined]

\* if (error) { errors[key] = error; }, unless join raised.
Insert(errs, key, error) ==
  IF error = TypeError THEN TypeError
  ELSE IF Truthy(error) THEN errs @@ (key :> error) ELSE errs

\* The errors object after the callback of forEach ran for key, or the
\* exception it raised.
Callback(errs, validationRules, record, clock, key) ==
  Insert(errs, key,
         join(Concat(validationRules[key]), Get(record, key), record, clock))

Threw(out) == DOMAIN out = DOMAIN TypeError

\* keys.forEach((key) => { ... }) from the errors object built so far: the
\* errors object when every key is done, or the exception that ends the call.
RECURSIVE ForEach(_, _, _, _, _)
ForEach(keys, validationRules, record, clock, errs) ==
  IF keys = <<>> \/ Threw(errs) THEN errs
  ELSE ForEach(Tail(keys), validationRules, record, clock,
               Callback(errs, validationRules, record, clock, Head(keys)))

\* forEach that stops at the first field in error.
RECURSIVE ForEach_stopAtError(_, _, _, _, _)
ForEach_stopAtError(keys, validationRules, record, clock, errs) ==
  IF keys = <<>> \/ Threw(errs) \/ DOMAIN errs # {} THEN errs
  ELSE ForEach_stopAtError(
         Tail(keys), validationRules, record, clock,
         Callback(errs, validationRules, record, clock, Head(keys)))

\* The outcome of a call: the errors object returned, or the exception.
Outcome(out) ==
  IF Threw(out) THEN [threw |-> TRUE, errors |-> NoErrors]
  ELSE [threw |-> FALSE, errors |-> out]

\* createValidator that reports the first field in error only.
createValidator_stopAtError(validationRules, record, clock) ==
  Outcome(ForEach_stopAtError(Keys(validationRules), validationRules, record,
                              clock, NoErrors))

\* The outcome of createValidator(validationRules)(data).
createValidator(validationRules, record, clock) ==
  Outcome(ForEach(Keys(validationRules), validationRules, record, clock,
                  NoErrors))

\* The arrays join mapped in the call, for the keys forEach reached.
Reached(key, mapped, later) ==
  IF Raised(mapped) THEN key :> mapped ELSE (key :> mapped) @@ later

RECURSIVE MappedFrom(_, _, _, _)
MappedFrom(keys, validationRules, record, clock) ==
  IF keys = <<>> THEN NoErrors
  ELSE Reached(Head(keys),
               MapRules(Concat(validationRules[Head(keys)]),
                        Get(record, Head(keys)), record, clock),
               MappedFrom(Tail(keys), validationRules, record, clock))

MappedResults(validationRules, record, clock) ==
  MappedFrom(Keys(validationRules), validationRules, record, clock)

-----------------------------------------------------------------------------
(* The reducer of the profile container                                    *)
(* (src/client/app/src/containers/ProfileContainer/reducer.js).  The two   *)
(* flags of its state are booleans; the inputs and the error are           *)
(* JavaScript values.                                                      *)

initialState ==
  [isEditing |-> FALSE,
   bioInput |-> Null,
   error |-> Null,
   isLoading |-> FALSE,
   avatarInput |-> Null,
   emailInput |-> Null,
   employerInput |-> Null]

\* The action types of ./constants, pairwise distinct.
types ==
  [PROFILE_EDIT_AVATAR |-> "PROFILE_EDIT_AVATAR",
   PROFILE_EDIT_BIO |-> "PROFILE_EDIT_BIO",
   PROFILE_EDIT_EMAIL |-> "PROFILE_EDIT_EMAIL",
   PROFILE_EDIT_EMPLOYER |-> "PROFILE_EDIT_EMPLOYER",
   PROFILE_SUBMISSION_INITIATION |-> "PROFILE_SUBMISSION_INITIATION",
   PROFILE_SUBMISSION_SUCCESS |-> "PROFILE_SUBMISSION_SUCCESS",
   PROFILE_SUBMISSION_FAILURE |-> "PROFILE_SUBMISSION_FAILURE",
   PROFILE_CLEAR_ERROR |-> "PROFILE_CLEAR_ERROR",
   PROFILE_CANCEL_EDITING |-> "PROFILE_CANCEL_EDITING",
   PROFILE_START_EDITING |-> "PROFILE_START_EDITING",
   PROFILE_SET_DEFAULT_INPUTS |-> "PROFILE_SET_DEFAULT_INPUTS"]

\* action.name: undefined when the action has no such property.
Prop(action, name) ==
  IF name \in DOMAIN action THEN action[name] ELSE Undefined

\* update(state, { key: { $set: value }, ... })
update(state, changes) == changes @@ state

\* The PROFILE_SET_DEFAULT_INPUTS case: action.inputs.bio raises when the
\* action carries no inputs.
SetDefaultInputs(state, inputs) ==
  IF inputs \in {Undefined, Null} THEN TypeError
  ELSE update(state, [bioInput |-> Prop(inputs, "bio"),
                      avatarInput |-> Prop(inputs, "avatar"),
                      employerInput |-> Prop(inputs, "employer"),
                      emailInput |-> Prop(inputs, "email")])

\* profileReducer with PROFILE_SUBMISSION_FAILURE leaving isLoading alone.
profileReducer_failureKeepsLoading(state, action) ==
  CASE action.type = types.PROFILE_EDIT_AVATAR ->
         update(state, [avatarInput |-> Prop(action, "avatar")])
    [] action.type = types.PROFILE_EDIT_BIO ->
         update(state, [bioInput |-> Prop(action, "bio")])
    [] action.type = types.PROFILE_EDIT_EMAIL ->
         update(state, [emailInput |-> Prop(action, "email")])
    [] action.type = types.PROFILE_EDIT_EMPLOYER ->
         update(state, [employerInput |-> Prop(action, "employer")])
    [] action.type = types.PROFILE_SUBMISSION_INITIATION ->
         update(state, [isLoading |-> TRUE])
    [] action.type = types.PROFILE_SUBMISSION_SUCCESS ->
         update(state, [isEditing |-> FALSE, bioInput |-> Null,
                        employerInput |-> Null, emailInput |-> Null,
                        avatarInput |-> Null, isLoading |-> FALSE])
    [] action.type = types.PROFILE_SUBMISSION_FAILURE ->
         update(state, [isEditing |-> FALSE, bioInput |-> Null,
                        avatarInput |-> Null, employerInput |-> Null,
                        emailInput |-> Null,
                        error |-> Prop(action, "error")])
    [] action.type = types.PROFILE_CLEAR_ERROR ->
         update(state, [error |-> Null])
    [] action.type = types.PROFILE_CANCEL_EDITING ->
         update(state, [isEditing |-> FALSE, bioInput |-> Null,
                        avatarInput |-> Null, employerInput |-> Null,
                        emailInput |-> Null])
    [] action.type = types.PROFILE_START_EDITING ->
         update(state, [isEditing |-> TRUE])
    [] action.type = types.PROFILE_SET_DEFAULT_INPUTS ->
         SetDefaultInputs(state, Prop(action, "inputs"))
    [] OTHER -> state

\* profileReducer(state, action): the next state, or the exception raised.
profileReducer(state, action) ==
  CASE action.type = types.PROFILE_EDIT_AVATAR ->
         update(state, [avatarInput |-> Prop(action, "avatar")])
    [] action.type = types.PROFILE_EDIT_BIO ->
         update(state, [bioInput |-> Prop(action, "bio")])
    [] action.type = types.PROFILE_EDIT_EMAIL ->
         update(state, [emailInput |-> Prop(action, "email")])
    [] action.type = types.PROFILE_EDIT_EMPLOYER ->
         update(state, [employerInput |-> Prop(action, "employer")])
    [] action.type = types.PROFILE_SUBMISSION_INITIATION ->
         update(state, [isLoading |-> TRUE])
    [] action.type = types.PROFILE_SUBMISSION_SUCCESS ->
         update(state, [isEditing |-> FALSE, bioInput |-> Null,
                        employerInput |-> Null, emailInput |-> Null,
                        avatarInput |-> Null, isLoading |-> FALSE])
    [] action.type = types.PROFILE_SUBMISSION_FAILURE ->
         update(state, [isEditing |-> FALSE, bioInput |-> Null,
                        avatarInput |-> Null, employerInput |-> Null,
                        emailInput |-> Null, isLoading |-> FALSE,
                        error |-> Prop(action, "error")])
    [] action.type = types.PROFILE_CLEAR_ERROR ->
         update(state, [error |-> Null])
    [] action.type = types.PROFILE_CANCEL_EDITING ->
         update(state, [isEditing |-> FALSE, bioInput |-> Null,
                        avatarInput |-> Null, employerInput |-> Null,
                        emailInput |-> Null])
    [] action.type = types.PROFILE_START_EDITING ->
         update(state, [isEditing |-> TRUE])
    [] action.type = types.PROFILE_SET_DEFAULT_INPUTS ->
         SetDefaultInputs(state, Prop(action, "inputs"))
    [] OTHER -> state

-----------------------------------------------------------------------------
(* Inputs *)

MaxRules == 2
MaxLen == 2

\* The values a field of the record takes; a field the record lacks reads
\* as undefined.
FieldValues ==
  {Null} \cup {Str(q) : q \in FieldStrings} \cup {Num(n) : n \in FieldNumbers}

\* The instants the clock shows.
Nows == {DateParse(Date2019), DateParse(Date2020)}

RulePool ==
  {Rule("valueRequired"), Rule("containsSpecialChar"), Rule("isInteger"),
   Rule("containsNumber"), Rule("containsLowercase"), Rule("containsUppercase"),
   Rule("containsTwoWords"), Rule("isEmail"), Rule("isValidDate"),
   Rule("isInFuture"), OneOf(<<Str(X), Str(JohnSmith)>>), MatchesRule(Str(X)),
   NoLaterThan("start")}
  \cup {MinLength(n) : n \in 1..MaxLen}
  \cup {MaxLength(n) : n \in 1..MaxLen}

\* The rules of the event form, from which the longer lists are drawn.
ListPool ==
  {Rule("valueRequired"), MinLength(MaxLen), Rule("isValidDate"),
   Rule("isInFuture"), NoLaterThan("start"), Rule("containsTwoWords")}

RECURSIVE RuleLists(_)
RuleLists(n) ==
  IF n = 0 THEN {<<>>}
  ELSE {<<r>> \o q : r \in ListPool, q \in RuleLists(n - 1)}

\* The schemas: one rule of the library on one field, bare or in a list; a
\* list of up to MaxRules rules on one field; a rule on each field.
Schemas ==
  {[f \in {g} |-> e] : g \in Fields,
                       e \in {Bare(r) : r \in RulePool}
                             \cup {List(<<r>>) : r \in RulePool}}
  \cup UNION {{[f \in {"end"} |-> List(q)] : q \in RuleLists(n)} :
                n \in 0..MaxRules}
  \cup {[f \in Fields |-> IF f = "start" THEN Bare(a) ELSE List(<<b>>)] :
          a \in ListPool, b \in RulePool}

-----------------------------------------------------------------------------
(* The form: createValidator(schema) is built once; the validator runs on   *)
(* the record whenever the form state changes.                              *)

ReadsClock(validationRules) ==
  \E key \in DOMAIN validationRules :
    \E i \in DOMAIN Concat(validationRules[key]) :
      Concat(validationRules[key])[i].name = "isInFuture"

Init ==
  /\ schema \in Schemas
  /\ data = NoErrors
  /\ now = CHOOSE n \in Nows : \A m \in Nows : ~Before(m, n)
  /\ called = FALSE
  /\ results = NoErrors
  /\ joined = NoErrors
  /\ threw = FALSE
  /\ errors = NoErrors
  /\ profile = initialState
  /\ previous = initialState
  /\ dispatched = <<>>

\* validator(record), at the instant clock, with the outcome out.
Return(record, clock, out) ==
  /\ data' = record
  /\ now' = clock
  /\ called' = TRUE
  /\ results' = MappedResults(schema, record, clock)
  /\ joined' = [key \in DOMAIN results' |->
                 join(Concat(schema[key]), Get(record, key), record, clock)]
  /\ threw' = out.threw
  /\ errors' = out.errors
  /\ UNCHANGED <<schema, profileVars>>

Run(record, clock) == Return(record, clock, createValidator(schema, record, clock))

Clocks == IF ReadsClock(schema) THEN Nows ELSE {now}

Validate == \E clock \in Clocks : Run(data, clock)

ChangeField(f, v) ==
  \E clock \in Clocks :
    Run([k \in DOMAIN data \cup {f} |-> IF k = f THEN v ELSE data[k]], clock)

RemoveField(f) ==
  /\ f \in DOMAIN data
  /\ \E clock \in Clocks : Run([k \in DOMAIN data \ {f} |-> data[k]], clock)

Next ==
  \/ Validate
  \/ \E f \in Fields, v \in FieldValues : ChangeField(f, v)
  \/ \E f \in Fields : RemoveField(f)

Spec == Init /\ [][Next]_vars

-----------------------------------------------------------------------------
(* The profile store: the reducer runs on every action dispatched, from    *)
(* initialState.  dispatched is the sequence of the actions so far and     *)
(* previous the state before the last of them.                             *)

MaxActions == 3

Payloads == {Undefined, Str(X)}

Inputs ==
  {[bio |-> Str(X), avatar |-> Str(X), employer |-> Str(X), email |-> v] :
     v \in Payloads}

Actions ==
  {[type |-> types.PROFILE_EDIT_AVATAR, avatar |-> v] : v \in Payloads}
  \cup {[type |-> types.PROFILE_EDIT_BIO, bio |-> v] : v \in Payloads}
  \cup {[type |-> types.PROFILE_EDIT_EMAIL, email |-> v] : v \in Payloads}
  \cup {[type |-> types.PROFILE_EDIT_EMPLOYER, employer |-> v] : v \in Payloads}
  \cup {[type |-> types.PROFILE_SUBMISSION_FAILURE, error |-> v] : v \in Payloads}
  \cup {[type |-> types.PROFILE_SET_DEFAULT_INPUTS, inputs |-> i] : i \in Inputs}
  \cup {[type |-> t] :
          t \in {types.PROFILE_SUBMISSION_INITIATION,
                 types.PROFILE_SUBMISSION_SUCCESS,
                 types.PROFILE_CLEAR_ERROR,
                 types.PROFILE_CANCEL_EDITING,
                 types.PROFILE_START_EDITING,
                 types.PROFILE_SET_DEFAULT_INPUTS,
                 "@@redux/INIT"}}

ProfileInit ==
  /\ profile = initialState
  /\ previous = initialState
  /\ dispatched = <<>>
  /\ schema = NoErrors
  /\ data = NoErrors
  /\ now = CHOOSE n \in Nows : \A m \in Nows : ~Before(m, n)
  /\ called = FALSE
  /\ results = NoErrors
  /\ joined = NoErrors
  /\ threw = FALSE
  /\ errors = NoErrors

\* The store keeps its state when the reducer raises.
NextState(state, reduced) == IF Threw(reduced) THEN state ELSE reduced

\* store.dispatch(action)
Dispatch(action) ==
  /\ Len(dispatched) < MaxActions
  /\ profile' = NextState(profile, profileReducer(profile, action))
  /\ previous' = profile
  /\ dispatched' = Append(dispatched, action)
  /\ UNCHANGED formVars

ProfileNext == \E action \in Actions : Dispatch(action)

ProfileSpec == ProfileInit /\ [][ProfileNext]_vars

-----------------------------------------------------------------------------
(* Properties *)

\* The rules of a schema field, and the calls the last run made: <<f, i>> is
\* the call of rule i of field f on the field's value.
RulesOf(f) == Concat(schema[f])
ValueOf(f) == Get(data, f)
Calls == {<<f, i>> \in Fields \X (1..(MaxRules + 1)) :
            f \in DOMAIN results /\ i \in DOMAIN results[f]}
RuleAt(c) == RulesOf(c[1])[c[2]]
ResultAt(c) == results[c[1]][c[2]]
CallsOf(name) == {c \in Calls : RuleAt(c).name = name}

Absent == {Undefined, Null, Str(<<>>)}
NoError(result) == result # TypeError /\ ~Truthy(result)

\* C1: join returns the result of the first rule, in list order, whose
\* result is non-empty, whatever the later rules return, and undefined when
\* every rule passes.
JoinReturnsFirstError ==
  \A f \in DOMAIN joined :
    LET r == results[f]
    IN joined[f] # TypeError =>
         \/ /\ \A i \in DOMAIN r : ~Truthy(r[i])
            /\ joined[f] = Undefined
         \/ \E i \in DOMAIN r :
              /\ Truthy(r[i])
              /\ \A j \in 1..(i - 1) : ~Truthy(r[j])
              /\ joined[f] = r[i]

\* A list in which two rules fail with different messages, and join returns
\* the message of the earlier one.
JoinWitness ==
  \E f \in DOMAIN joined :
    /\ joined[f] # TypeError
    /\ \E i, j \in DOMAIN results[f] :
         /\ i < j
         /\ Truthy(results[f][i])
         /\ Truthy(results[f][j])
         /\ results[f][i] # results[f][j]
         /\ joined[f] = results[f][i]

\* C2: the errors object has a key exactly for the schema fields whose
\* joined rules give a non-empty message on (record[key], record), with that
\* message as its value, and the entry of a field is the one the field's
\* rules give when they are the whole schema.
ErrorMapIsExactAndSparse ==
  (called /\ ~threw) =>
    /\ DOMAIN errors \subseteq DOMAIN schema
    /\ \A key \in DOMAIN schema :
         LET error == join(RulesOf(key), ValueOf(key), data, now)
             alone == createValidator([k \in {key} |-> schema[key]], data, now)
         IN /\ key \in DOMAIN errors <=> Truthy(error)
            /\ key \in DOMAIN errors => errors[key] = error /\ IsMsg(error)
            /\ ~alone.threw
            /\ key \in DOMAIN errors <=> key \in DOMAIN alone.errors
            /\ key \in DOMAIN errors => errors[key] = alone.errors[key]

\* A schema of two fields on a record that holds both, where the first field
\* is in error and the second is not, and one where both are in error.
ErrorMapWitness ==
  /\ called
  /\ ~threw
  /\ DOMAIN schema = Fields
  /\ DOMAIN data = Fields
  /\ "start" \in DOMAIN errors
  /\ "end" \notin DOMAIN errors

ErrorMapBothWitness ==
  /\ called
  /\ ~threw
  /\ DOMAIN errors = Fields
  /\ errors["start"] # errors["end"]

\* C3: on the empty record the errors object holds exactly the fields whose
\* rules include valueRequired, each with the message 'Value Required'.
RequiredFieldsOnEmptyRecord ==
  (called /\ DOMAIN data = {}) =>
    /\ ~threw
    /\ DOMAIN errors =
         {key \in DOMAIN schema :
            \E i \in DOMAIN RulesOf(key) : RulesOf(key)[i].name = "valueRequired"}
    /\ \A key \in DOMAIN errors : errors[key] = Msg("Value Required")

\* C4: a value-shape predicate reports no error on undefined, null or '';
\* valueRequired reports 'Value Required' on each of them.
ShapeRules ==
  {"minLength", "maxLength", "containsSpecialChar", "isInteger",
   "containsNumber", "containsLowercase", "containsUppercase",
   "containsTwoWords", "isEmail", "isValidDate"}

ShapeRulesPassAbsentValues ==
  \A c \in Calls :
    ValueOf(c[1]) \in Absent =>
      /\ RuleAt(c).name \in ShapeRules => NoError(ResultAt(c))
      /\ RuleAt(c).name = "valueRequired" => ResultAt(c) = Msg("Value Required")

\* A list with minLength and valueRequired called on the empty string.
AbsentValueWitness ==
  /\ \E c \in CallsOf("minLength") :
       ValueOf(c[1]) = Str(<<>>) /\ ResultAt(c) = Undefined
  /\ \E c \in CallsOf("valueRequired") :
       ValueOf(c[1]) = Str(<<>>) /\ Truthy(ResultAt(c))

\* C5: oneOf(values) reports no error on a member of values, and the message
\* 'Value must be one of: ...' on a present value that is no member.
OneOfIsMembership ==
  \A c \in CallsOf("oneOf") :
    LET values == RuleAt(c).values
        member == \E i \in DOMAIN values : values[i] = ValueOf(c[1])
    IN /\ member => NoError(ResultAt(c))
       /\ (~member /\ ValueOf(c[1]) \notin Absent) =>
            ResultAt(c) = Msg("Value must be one of: " \o JoinText(values))

\* C6: when the value and the named field both parse as dates,
\* noLaterThan(field) returns the ordering message if the value's date
\* precedes the field's, and no error if it is at or after it.
Parses(value) == ~NewDate(value).nan

NoLaterThanOrdersDates ==
  \A c \in CallsOf("noLaterThan") :
    LET value == ValueOf(c[1])
        other == ValueOf(RuleAt(c).field)
    IN (Parses(value) /\ Parses(other)) =>
         IF Before(NewDate(value), NewDate(other))
         THEN ResultAt(c) = Msg("The end date must come after the start date")
         ELSE NoError(ResultAt(c))

\* An end date a year before the start date, and the two swapped.
NoLaterThanFailsWitness ==
  \E c \in CallsOf("noLaterThan") :
    /\ ValueOf(c[1]) = Str(Date2019)
    /\ ValueOf(RuleAt(c).field) = Str(Date2020)
    /\ Truthy(ResultAt(c))

NoLaterThanPassesWitness ==
  \E c \in CallsOf("noLaterThan") :
    /\ ValueOf(c[1]) = Str(Date2020)
    /\ ValueOf(RuleAt(c).field) = Str(Date2019)
    /\ ~Truthy(ResultAt(c))

\* C7: on a value that parses as a date, isInFuture returns 'Please choose a
\* date in the future' unless the date is strictly after the instant of the
\* call, the instant itself included.
IsInFutureIsStrict ==
  \A c \in CallsOf("isInFuture") :
    LET value == ValueOf(c[1])
    IN Parses(value) =>
         IF Before(now, NewDate(value))
         THEN NoError(ResultAt(c))
         ELSE ResultAt(c) = Msg("Please choose a date in the future")

\* C8: the validator returns an errors object on every schema and record;
\* no call raises.
ValidatorNeverThrows ==
  /\ ~threw
  /\ \A f \in DOMAIN joined : joined[f] # TypeError
  /\ \A c \in Calls : ResultAt(c) # TypeError

\* C9: a value that is present and does not parse as a date, in the field
\* or for noLaterThan in the named field, makes the ordering predicate
\* return an error message.
Present(value) == value \notin Absent

UnparsableDateFails ==
  /\ \A c \in CallsOf("isInFuture") :
       (Present(ValueOf(c[1])) /\ ~Parses(ValueOf(c[1]))) => IsMsg(ResultAt(c))
  /\ \A c \in CallsOf("noLaterThan") :
       LET value == ValueOf(c[1])
           other == ValueOf(RuleAt(c).field)
       IN (/\ Present(value)
           /\ Present(other)
           /\ ~Parses(value) \/ ~Parses(other)) => IsMsg(ResultAt(c))

\* C10: minLength(n) is undefined on a string of length >= n, the message
\* 'Value must contain at least n characters' on a non-empty string of
\* length < n, and undefined on undefined, null and ''.
MinLengthBound ==
  \A c \in CallsOf("minLength") :
    LET n == RuleAt(c).minimum
        v == ValueOf(c[1])
    IN /\ (IsStr(v) /\ Len(v.s) >= n) => ResultAt(c) = Undefined
       /\ (IsStr(v) /\ v.s # <<>> /\ Len(v.s) < n) =>
            ResultAt(c) =
              Msg("Value must contain at least " \o ToString(n) \o " characters")
       /\ v \in Absent => ResultAt(c) = Undefined

\* A string one character short of the minimum, and one exactly at it.
MinLengthShortWitness ==
  \E c \in CallsOf("minLength") :
    /\ IsStr(ValueOf(c[1]))
    /\ Len(ValueOf(c[1]).s) = RuleAt(c).minimum - 1
    /\ Len(ValueOf(c[1]).s) > 0
    /\ Truthy(ResultAt(c))

MinLengthExactWitness ==
  \E c \in CallsOf("minLength") :
    /\ IsStr(ValueOf(c[1]))
    /\ Len(ValueOf(c[1]).s) = RuleAt(c).minimum
    /\ ResultAt(c) = Undefined

-----------------------------------------------------------------------------
(* Properties of the profile store *)

SubmissionTypes ==
  {types.PROFILE_SUBMISSION_INITIATION,
   types.PROFILE_SUBMISSION_SUCCESS,
   types.PROFILE_SUBMISSION_FAILURE}

IsSubmission(action) == action.type \in SubmissionTypes

\* The submission-lifecycle actions dispatched so far, in order.
Submissions == SelectSeq(dispatched, IsSubmission)

LastDispatched == dispatched[Len(dispatched)]

InputsCleared(state) ==
  /\ state.isEditing = FALSE
  /\ state.bioInput = Null
  /\ state.avatarInput = Null
  /\ state.emailInput = Null
  /\ state.employerInput = Null

\* C11: from initialState and after any sequence of actions, isLoading is
\* true exactly when the most recent submission action dispatched was
\* PROFILE_SUBMISSION_INITIATION; every action that is not a submission
\* action leaves isLoading as it was; and after PROFILE_SUBMISSION_SUCCESS
\* or PROFILE_SUBMISSION_FAILURE isEditing is false and bioInput,
\* avatarInput, emailInput and employerInput are null.
LoadingFollowsSubmission ==
  /\ profile.isLoading =
       (/\ Submissions # <<>>
        /\ Submissions[Len(Submissions)].type =
             types.PROFILE_SUBMISSION_INITIATION)
  /\ dispatched # <<>> =>
       /\ ~IsSubmission(LastDispatched) =>
            profile.isLoading = previous.isLoading
       /\ LastDispatched.type \in {types.PROFILE_SUBMISSION_SUCCESS,
                                   types.PROFILE_SUBMISSION_FAILURE} =>
            InputsCleared(profile)

\* A submission was initiated while the form was being edited, and an edit
\* followed it: the store is still loading.
StillLoadingWitness ==
  /\ Len(dispatched) = 3
  /\ dispatched[1].type = types.PROFILE_START_EDITING
  /\ dispatched[2].type = types.PROFILE_SUBMISSION_INITIATION
  /\ dispatched[3] = [type |-> types.PROFILE_EDIT_BIO, bio |-> Str(X)]
  /\ profile.isLoading
  /\ profile.isEditing
  /\ profile.bioInput = Str(X)

\* A submission that failed after an edit: loading is over, the inputs are
\* cleared and the error is kept.
SubmissionFailedWitness ==
  /\ Len(dispatched) = 3
  /\ dispatched[1] = [type |-> types.PROFILE_EDIT_BIO, bio |-> Str(X)]
  /\ dispatched[2].type = types.PROFILE_SUBMISSION_INITIATION
  /\ dispatched[3] = [type |-> types.PROFILE_SUBMISSION_FAILURE,
                      error |-> Str(X)]
  /\ previous.isLoading
  /\ previous.bioInput = Str(X)
  /\ ~profile.isLoading
  /\ InputsCleared(profile)
  /\ profile.error = Str(X)

====
